---------------------------- MODULE Spec2Model ----------------------------
(***************************************************************************)
(* A model of cpd-rs: the Runner builder, the rigid Registration, the      *)
(* Gauss transform and the normalization, as Runner::run drives them.      *)
(*                                                                         *)
(* Numbers.  An f64 is modelled as an extended rational <<n, d>>: d > 0    *)
(* in lowest terms for a finite value, <<1,0>> and <<-1,0>> for the two    *)
(* infinities and <<0,0>> for NaN, with IEEE-754's rules for the special   *)
(* values (x/0, 0/0, Inf-Inf, 0*Inf, comparisons with NaN).  Rounding,     *)
(* overflow of finite values and the sign of zero are not modelled.        *)
(* The transcendental library calls (exp, ln) are modelled by what the     *)
(* library guarantees of them, their finite results being drawn from       *)
(* small sets by the action that calls them.                               *)
(***************************************************************************)
EXTENDS Integers, Sequences, FiniteSets, TLC

\* ------------------------------------------------------------------ f64

NaN == <<0, 0>>
PosInf == <<1, 0>>
NegInf == <<-1, 0>>

IAbs(i) == IF i < 0 THEN -i ELSE i

ISign(i) == IF i > 0 THEN 1 ELSE IF i < 0 THEN -1 ELSE 0

RECURSIVE Gcd(_, _)
Gcd(a, b) == IF b = 0 THEN a ELSE Gcd(b, a % b)

\* n/d in lowest terms with a positive denominator; n/0 is NaN or an infinity.
Norm(n, d) ==
    IF d = 0 THEN <<ISign(n), 0>>
    ELSE IF d = 1 THEN <<n, 1>>
    ELSE IF n = 0 THEN <<0, 1>>
    ELSE LET g == Gcd(IAbs(n), IAbs(d))
             s == ISign(d)
         IN  <<(s * n) \div g, (s * d) \div g>>

F(i) == <<i, 1>>

Zero == F(0)
One == F(1)

IsNaN(x) == x = NaN
IsFinite(x) == x[2] # 0

FNeg(x) == <<-x[1], x[2]>>

FAbs(x) == <<IAbs(x[1]), x[2]>>

\* The sum, over the least common denominator.
FAdd(x, y) ==
    IF x[2] = 0 /\ y[2] = 0
    THEN IF x = y THEN x ELSE NaN
    ELSE IF x[2] = 0 THEN x
    ELSE IF y[2] = 0 THEN y
    ELSE IF x[2] = y[2] THEN Norm(x[1] + y[1], x[2])
    ELSE LET g == Gcd(x[2], y[2])
         IN  Norm(x[1] * (y[2] \div g) + y[1] * (x[2] \div g), x[2] * (y[2] \div g))

FSub(x, y) == FAdd(x, FNeg(y))

\* The product, the common factors cancelled before multiplying.
FMul(x, y) ==
    IF x[2] = 0 \/ y[2] = 0 \/ x[1] = 0 \/ y[1] = 0 \/ (x[2] = 1 /\ y[2] = 1)
    THEN Norm(x[1] * y[1], x[2] * y[2])
    ELSE LET g == Gcd(IAbs(x[1]), y[2])
             h == Gcd(IAbs(y[1]), x[2])
         IN  <<(x[1] \div g) * (y[1] \div h), (x[2] \div h) * (y[2] \div g)>>

\* 1/x: 1/0 is +Inf (the zero is taken as +0), 1/Inf is 0, 1/NaN is NaN.
FInv(x) ==
    IF x[1] > 0 THEN <<x[2], x[1]>>
    ELSE IF x[1] < 0 THEN <<-x[2], -x[1]>>
    ELSE IF x[2] = 0 THEN NaN ELSE PosInf

FDiv(x, y) == FMul(x, FInv(y))

\* Rust's <, >, <= and == on f64: every comparison with NaN is false.
FLt(x, y) ==
    /\ ~IsNaN(x)
    /\ ~IsNaN(y)
    /\ IF x[2] = 0 \/ y[2] = 0
       THEN \/ (x = NegInf /\ y # NegInf)
            \/ (y = PosInf /\ x # PosInf)
       ELSE x[1] * y[2] < y[1] * x[2]

FGt(x, y) == FLt(y, x)

FEq(x, y) == ~IsNaN(x) /\ ~IsNaN(y) /\ x = y

FLe(x, y) == FLt(x, y) \/ FEq(x, y)

\* f64::sqrt on the rationals that have a rational root (the model's inputs
\* are chosen so that no other finite value reaches it).
RECURSIVE ISqrtFrom(_, _)
ISqrtFrom(n, r) == IF (r + 1) * (r + 1) > n THEN r ELSE ISqrtFrom(n, r + 1)

ISqrt(n) == ISqrtFrom(n, 0)

HasSqrt(x) == x[1] < 0 \/ x[2] = 0
              \/ (ISqrt(x[1]) * ISqrt(x[1]) = x[1] /\ ISqrt(x[2]) * ISqrt(x[2]) = x[2])

FSqrt(x) ==
    IF IsNaN(x) \/ x[1] < 0 THEN NaN
    ELSE IF x = PosInf THEN PosInf
    ELSE <<ISqrt(x[1]), ISqrt(x[2])>>


\* ------------------------------------------------------------- matrices

\* The number of columns of a Matrix<D> (lib.rs exports U2 and U3; the model
\* is of the two-dimensional instance the tests use).
D == 2

Dims == 1 .. D

\* A sequence given as a function on 1 .. n, as the sequence it is.
Vec(f) == f \o <<>>

RECURSIVE FSum(_)
FSum(s) == IF s = <<>> THEN Zero ELSE FAdd(s[1], FSum(Tail(s)))

\* A Matrix<D> is a sequence of rows, a row a sequence of D values;
\* a Vector<D>, RowVector<D> or DVector is a sequence of values.
nrows(m) == Len(m)

column(m, d) == Vec([n \in 1 .. Len(m) |-> m[n][d]])

Dot(v, w) == FSum(Vec([i \in 1 .. Len(v) |-> FMul(v[i], w[i])]))

\* a * b for an r x k and a k x c matrix (k >= 1).
MatMul(a, b) ==
    Vec([i \in 1 .. Len(a) |->
        Vec([j \in 1 .. Len(b[1]) |->
            FSum(Vec([l \in 1 .. Len(b) |-> FMul(a[i][l], b[l][j])]))])])

\* transpose of an r x D matrix with r >= 1.
Transpose(m) == Vec([j \in 1 .. Len(m[1]) |-> Vec([i \in 1 .. Len(m) |-> m[i][j]])])

\* m^T * v for an r x D matrix and a vector of length r: a Vector<D>.
TMulVec(m, v) == Vec([d \in Dims |-> Dot(column(m, d), v)])

\* m * v for a D x D matrix and a Vector<D>.
MulVec(m, v) == Vec([i \in Dims |-> Dot(m[i], v)])

Scale(x, m) ==
    Vec([i \in 1 .. Len(m) |-> Vec([j \in 1 .. Len(m[i]) |-> FMul(x, m[i][j])])])

ScaleVec(x, v) == Vec([i \in 1 .. Len(v) |-> FMul(x, v[i])])

VecDiv(v, x) == Vec([i \in 1 .. Len(v) |-> FDiv(v[i], x)])

VecAdd(v, w) == Vec([i \in 1 .. Len(v) |-> FAdd(v[i], w[i])])

VecSub(v, w) == Vec([i \in 1 .. Len(v) |-> FSub(v[i], w[i])])

MatSub(a, b) == Vec([i \in 1 .. Len(a) |-> VecSub(a[i], b[i])])

\* v * w^T for two Vector<D>: a D x D matrix.
Outer(v, w) == Vec([i \in Dims |-> Vec([j \in Dims |-> FMul(v[i], w[j])])])

Trace(m) == FSum(Vec([i \in Dims |-> m[i][i]]))

Identity == Vec([i \in Dims |-> Vec([j \in Dims |-> IF i = j THEN One ELSE Zero])])

Zeros == Vec([i \in Dims |-> Zero])

\* determinant of a 2 x 2 matrix.
Det(m) == FSub(FMul(m[1][1], m[2][2]), FMul(m[1][2], m[2][1]))

\* every entry of the matrix (vector) is finite.
MatFinite(m) == \A i \in 1 .. Len(m) : \A j \in 1 .. Len(m[i]) : IsFinite(m[i][j])

VecFinite(v) == \A i \in 1 .. Len(v) : IsFinite(v[i])

\* == on matrices of f64 (PartialEq: false as soon as an entry is NaN).
MatEq(a, b) ==
    /\ Len(a) = Len(b)
    /\ \A i \in 1 .. Len(a) : \A j \in 1 .. Len(a[i]) : FEq(a[i][j], b[i][j])

VecEq(v, w) == Len(v) = Len(w) /\ \A i \in 1 .. Len(v) : FEq(v[i], w[i])


\* --------------------------------------------------------- normalize.rs

\* Parameters::new: the column means and the root of the mean squared
\* distance of the centred rows from the origin.
ParametersNew(m) ==
    LET rows == F(nrows(m))
        offset == Vec([d \in Dims |-> FDiv(FSum(column(m, d)), rows)])
        centred == Vec([n \in 1 .. Len(m) |-> VecSub(m[n], offset)])
        squares == FSum(Vec([n \in 1 .. Len(m) |-> Dot(centred[n], centred[n])]))
    IN  [offset |-> offset, scale |-> FSqrt(FDiv(squares, rows))]

\* Parameters::normalize: subtract the offset from each column, then divide
\* every element by the scale.
ParametersNormalize(p, m) ==
    Vec([n \in 1 .. Len(m) |-> Vec([d \in Dims |-> FDiv(FSub(m[n][d], p.offset[d]), p.scale)])])

\* Parameters::denormalize: multiply every element by the scale, then add
\* the offset to each column.
ParametersDenormalize(p, m) ==
    Vec([n \in 1 .. Len(m) |-> Vec([d \in Dims |-> FAdd(FMul(m[n][d], p.scale), p.offset[d])])])

NormalizationNew(fx, mv) == [fixed |-> ParametersNew(fx), moving |-> ParametersNew(mv)]

\* Normalization::set_scales_to_mean with the scale of fixed given to both.
set_scales_to_fixed(nz) ==
    [fixed |-> nz.fixed, moving |-> [nz.moving EXCEPT !.scale = nz.fixed.scale]]

\* Normalization::set_scales_to_mean.
set_scales_to_mean(nz) ==
    LET scale == FDiv(FAdd(nz.fixed.scale, nz.moving.scale), F(2))
    IN  [fixed |-> [nz.fixed EXCEPT !.scale = scale],
         moving |-> [nz.moving EXCEPT !.scale = scale]]

\* Option: None and Some(x).
None == <<>>

Some(x) == <<x>>

IsSome(opt) == Len(opt) = 1

\* Option::unwrap, and Option::unwrap_or (whose argument Rust evaluates first).
unwrap(opt) == opt[1]

unwrap_or(opt, default) == IF IsSome(opt) THEN opt[1] ELSE default

\* Normalize::requires_scaling.
requires_scaling(normalize) == normalize = "Independent"

\* Normalize::normalize with Normalize::None treated as SameScale.
NormalizeAlways(normalize, fx, mv) ==
    LET nz == IF normalize = "Independent"
              THEN NormalizationNew(fx, mv)
              ELSE set_scales_to_mean(NormalizationNew(fx, mv))
    IN  [fixed |-> ParametersNormalize(nz.fixed, fx),
         moving |-> ParametersNormalize(nz.moving, mv),
         normalization |-> Some(nz)]

\* Normalize::normalize: the working copies and the optional parameters.
NormalizeNormalize(normalize, fx, mv) ==
    CASE normalize = "Independent" ->
            LET nz == NormalizationNew(fx, mv)
            IN  [fixed |-> ParametersNormalize(nz.fixed, fx),
                 moving |-> ParametersNormalize(nz.moving, mv),
                 normalization |-> Some(nz)]
      [] normalize = "SameScale" ->
            LET nz == set_scales_to_mean(NormalizationNew(fx, mv))
            IN  [fixed |-> ParametersNormalize(nz.fixed, fx),
                 moving |-> ParametersNormalize(nz.moving, mv),
                 normalization |-> Some(nz)]
      [] normalize = "None" ->
            [fixed |-> fx, moving |-> mv, normalization |-> None]

\* ------------------------------------------------------------ runner.rs

\* runner::sigma2 with the product of the column sums taken once.
Sigma2SingleProduct(fx, mv) ==
    LET sum(m) == Vec([d \in Dims |-> FSum(column(m, d))])
        numerator ==
            FSub(FAdd(FMul(F(nrows(fx)), Trace(MatMul(Transpose(fx), fx))),
                      FMul(F(nrows(mv)), Trace(MatMul(Transpose(mv), mv)))),
                 Dot(sum(fx), sum(mv)))
        denominator == F(nrows(fx) * nrows(mv) * D)
    IN  FDiv(numerator, denominator)

\* runner::sigma2, the default sigma2 for two matrices.
runner_sigma2(fx, mv) ==
    LET sum(m) == Vec([d \in Dims |-> FSum(column(m, d))])
        numerator ==
            FSub(FAdd(FMul(F(nrows(fx)), Trace(MatMul(Transpose(fx), fx))),
                      FMul(F(nrows(mv)), Trace(MatMul(Transpose(mv), mv)))),
                 FMul(F(2), Dot(sum(fx), sum(mv))))
        denominator == F(nrows(fx) * nrows(mv) * D)
    IN  FDiv(numerator, denominator)


\* ------------------------------------------------------ gauss_transform

\* std::f64::consts::PI, by the rational 22/7.
PI == <<22, 7>>

\* The arguments beyond which f64::exp underflows to 0 and overflows to +Inf.
EXP_UNDERFLOW == F(-746)

EXP_OVERFLOW == F(710)

\* f64::exp.  exp(0) = 1, exp(-Inf) = 0, exp(+Inf) = +Inf and exp(NaN) = NaN
\* are exact, and so is the 0 below EXP_UNDERFLOW and the +Inf above
\* EXP_OVERFLOW; for any other x < 0 the library returns some value q with
\* 0 < q < 1, and 1/q for -x.
Exp(x, q) ==
    IF IsNaN(x) THEN NaN
    ELSE IF x = Zero THEN One
    ELSE IF FLt(x, EXP_UNDERFLOW) THEN Zero
    ELSE IF FLt(EXP_OVERFLOW, x) THEN PosInf
    ELSE IF x[1] < 0 THEN q
    ELSE FInv(q)

\* f64::ln on the arguments whose logarithm is not finite; a finite positive
\* argument has a finite logarithm, which a sum with a non-finite term absorbs.
LnIsFinite(x) == IsFinite(x) /\ x[1] > 0

LnSpecial(x) ==
    IF IsNaN(x) \/ x[1] < 0 THEN NaN
    ELSE IF x = Zero THEN NegInf
    ELSE IF x = PosInf THEN PosInf
    ELSE Zero

\* f64::powf(x, 0.5 * D) for D = 2: the exponent is 1.
Powf1(x) == x

\* Transformer::new with the lower bound refused too.
TransformerNewRefusesZero(fx, outlier_weight) ==
    IF FLe(outlier_weight, Zero) \/ FGt(outlier_weight, One)
    THEN [err |-> "InvalidOutlierWeight", value |-> outlier_weight]
    ELSE [ok |-> [fixed |-> fx, outlier_weight |-> outlier_weight]]

\* Transformer::new: the transformer, or the error carrying the weight.
TransformerNew(fx, outlier_weight) ==
    IF FLt(outlier_weight, Zero) \/ FGt(outlier_weight, One)
    THEN [err |-> "InvalidOutlierWeight", value |-> outlier_weight]
    ELSE [ok |-> [fixed |-> fx, outlier_weight |-> outlier_weight]]

IsOk(r) == "ok" \in DOMAIN r

IsErr(r) == "err" \in DOMAIN r

\* The term every kernel sum gets for the outliers.
Outliers(tr, mv, s2) ==
    LET ksig == FMul(F(-2), s2)
    IN  FDiv(FMul(FMul(tr.outlier_weight, F(nrows(mv))), Powf1(FMul(FNeg(ksig), PI))),
             FMul(FSub(One, tr.outlier_weight), F(nrows(tr.fixed))))

\* The values of p in the pass for each fixed row n: p[m] = exp(norm / ksig).
Kernel(tr, mv, s2, q) ==
    LET ksig == FMul(F(-2), s2)
    IN  Vec([n \in 1 .. Len(tr.fixed) |->
            Vec([m \in 1 .. Len(mv) |->
                LET norm == FSum(Vec([d \in Dims |->
                                LET diff == FSub(tr.fixed[n][d], mv[m][d])
                                IN  FMul(diff, diff)]))
                IN  Exp(FDiv(norm, ksig), q)])])

\* Transformer::probabilities with px accumulated per fixed row: N rows, the
\* moving coordinates weighted by the kernel values of the row.
CorrespondencePxPerFixed(tr, mv, s2, q) ==
    LET rowsN == 1 .. Len(tr.fixed)
        rowsM == 1 .. Len(mv)
        outliers == Outliers(tr, mv, s2)
        p == Kernel(tr, mv, s2, q)
        sp == Vec([n \in rowsN |-> FAdd(FSum(p[n]), outliers)])
    IN  [p1 |-> Vec([m \in rowsM |-> FSum(Vec([n \in rowsN |-> FDiv(p[n][m], sp[n])]))]),
         pt1 |-> Vec([n \in rowsN |-> FSub(One, FDiv(outliers, sp[n]))]),
         px |-> Vec([n \in rowsN |->
                    Vec([d \in Dims |->
                        FSum(Vec([m \in rowsM |->
                                FMul(FDiv(mv[m][d], sp[n]), p[n][m])]))])]),
         sp |-> sp]

\* Transformer::probabilities with p1 accumulated before the outliers are
\* added to sp.
CorrespondenceOutliersLate(tr, mv, s2, q) ==
    LET rowsN == 1 .. Len(tr.fixed)
        rowsM == 1 .. Len(mv)
        outliers == Outliers(tr, mv, s2)
        p == Kernel(tr, mv, s2, q)
        sp == Vec([n \in rowsN |-> FAdd(FSum(p[n]), outliers)])
    IN  [p1 |-> Vec([m \in rowsM |->
                    FSum(Vec([n \in rowsN |-> FDiv(p[n][m], FSum(p[n]))]))]),
         pt1 |-> Vec([n \in rowsN |-> FSub(One, FDiv(outliers, sp[n]))]),
         px |-> Vec([m \in rowsM |->
                    Vec([d \in Dims |->
                        FSum(Vec([n \in rowsN |->
                                FMul(FDiv(tr.fixed[n][d], sp[n]), p[n][m])]))])]),
         sp |-> sp]

\* Transformer::probabilities without its error: p1, pt1 and px, and the
\* kernel sums sp of the fixed rows.  q is what exp returns for a finite
\* negative argument.
Correspondence(tr, mv, s2, q) ==
    LET rowsN == 1 .. Len(tr.fixed)
        rowsM == 1 .. Len(mv)
        outliers == Outliers(tr, mv, s2)
        p == Kernel(tr, mv, s2, q)
        sp == Vec([n \in rowsN |-> FAdd(FSum(p[n]), outliers)])
    IN  [p1 |-> Vec([m \in rowsM |-> FSum(Vec([n \in rowsN |-> FDiv(p[n][m], sp[n])]))]),
         pt1 |-> Vec([n \in rowsN |-> FSub(One, FDiv(outliers, sp[n]))]),
         px |-> Vec([m \in rowsM |->
                    Vec([d \in Dims |->
                        FSum(Vec([n \in rowsN |->
                                FMul(FDiv(tr.fixed[n][d], sp[n]), p[n][m])]))])]),
         sp |-> sp]

\* The error of Transformer::probabilities: the sum of -ln(sp) over the fixed
\* rows plus D * N * ln(sigma2) / 2.  e is its value when all the logarithms
\* are finite.
ProbabilitiesError(tr, sp, s2, e) ==
    IF LnIsFinite(s2) /\ \A n \in 1 .. Len(sp) : LnIsFinite(sp[n])
    THEN e
    ELSE FAdd(FSum(Vec([n \in 1 .. Len(sp) |-> FNeg(LnSpecial(sp[n]))])),
              FDiv(FMul(F(D * Len(tr.fixed)), LnSpecial(s2)), F(2)))

\* The Probabilities of a correspondence and its error.
Probabilities(c, error) == [p1 |-> c.p1, pt1 |-> c.pt1, px |-> c.px, error |-> error]

\* Transformer::probabilities.
probabilities(tr, mv, s2, q, e) ==
    LET c == Correspondence(tr, mv, s2, q)
    IN  Probabilities(c, ProbabilitiesError(tr, c.sp, s2, e))

\* ------------------------------------------------------------- rigid

\* Registration::new refusing every independent normalization.
RegistrationNewIgnoresScale(rg) ==
    IF requires_scaling(rg.runner.normalize)
    THEN [err |-> "CannotNormalizeIndependentlyWithoutScale"]
    ELSE [ok |-> [rigid |-> rg,
                  rotation |-> Identity,
                  scale |-> One,
                  translation |-> Zeros]]

\* Registration::new: the registration borrows the Rigid (whose fields it
\* reads later) and starts at the identity transform.
RegistrationNew(rg) ==
    IF requires_scaling(rg.runner.normalize) /\ ~rg.scale
    THEN [err |-> "CannotNormalizeIndependentlyWithoutScale"]
    ELSE [ok |-> [rigid |-> rg,
                  rotation |-> Identity,
                  scale |-> One,
                  translation |-> Zeros]]

\* The orthogonal 2 x 2 matrices with entries in {-1, 0, 1}: the quarter-turn
\* rotations and the axis and diagonal reflections.
Orth ==
    {<<<<F(a), Zero>>, <<Zero, F(b)>>>> : a \in {-1, 1}, b \in {-1, 1}}
        \cup {<<<<Zero, F(a)>>, <<F(b), Zero>>>> : a \in {-1, 1}, b \in {-1, 1}}

FromDiagonal(v) == Vec([i \in Dims |-> Vec([j \in Dims |-> IF i = j THEN v[i] ELSE Zero])])

NaNMatrix == Vec([i \in Dims |-> Vec([j \in Dims |-> NaN])])

\* The members of Orth with no negative entry: the identity and the exchange
\* of the axes.
OrthU == {u \in Orth : \A i \in Dims, j \in Dims : u[i][j][1] >= 0}

\* Matrix::svd(true, true) of a D x D matrix, an external routine: any
\* factorisation a = u * diag(s) * v_t with u and v_t orthogonal and
\* s[1] >= s[2] >= 0 may be returned (the factors of a matrix of rank below D
\* are not unique); the factors of a matrix with a non-finite entry are NaN.
\* The model's inputs keep a finite a of rank at most one along the
\* axes, whose factors are in Orth.  Negating a column of u and the matching
\* row of v_t gives another factorisation with the same u * v_t and the same
\* u * c * v_t for every diagonal c, which is all the update reads of them:
\* u is taken from OrthU.
Svd(a) ==
    IF ~MatFinite(a)
    THEN {[u |-> NaNMatrix, singular_values |-> <<NaN, NaN>>, v_t |-> NaNMatrix]}
    ELSE {f \in {[u |-> u, v_t |-> v_t,
                  singular_values |->
                      LET sm == MatMul(MatMul(Transpose(u), a), Transpose(v_t))
                      IN  IF sm[1][2] = Zero /\ sm[2][1] = Zero
                          THEN <<sm[1][1], sm[2][2]>>
                          ELSE <<NaN, NaN>>] : u \in OrthU, v_t \in Orth} :
            /\ FLe(Zero, f.singular_values[2])
            /\ FLe(f.singular_values[2], f.singular_values[1])}

\* Registration::iterate up to the decomposition, and the sums it takes over
\* the points: np, the weighted means, the matrix a that is decomposed, and
\* the scalars a, b, c, d and denominator (here sa, sb, sc, sd).
IterateSums(fx, mv, pr) ==
    LET np == FSum(pr.pt1)
        mu_fixed == VecDiv(TMulVec(fx, pr.pt1), np)
        mu_moving == VecDiv(TMulVec(mv, pr.p1), np)
    IN  [np |-> np,
         mu_fixed |-> mu_fixed,
         mu_moving |-> mu_moving,
         a |-> MatSub(MatMul(Transpose(pr.px), mv),
                      Outer(ScaleVec(np, mu_fixed), mu_moving)),
         sa |-> FSum(Vec([d \in Dims |->
                   FSum(Vec([n \in 1 .. Len(fx) |->
                       FMul(FMul(fx[n][d], fx[n][d]), pr.pt1[n])]))])),
         sb |-> FMul(np, Dot(mu_fixed, mu_fixed)),
         sc |-> FSum(Vec([d \in Dims |->
                   FSum(Vec([m \in 1 .. Len(mv) |->
                       FMul(FMul(mv[m][d], mv[m][d]), pr.p1[m])]))])),
         sd |-> FMul(np, Dot(mu_moving, mu_moving)),
         denominator |-> FMul(np, F(D))]

\* The matrix the rigid update decomposes.
IterateA(fx, mv, pr) == IterateSums(fx, mv, pr).a

\* Registration::iterate from the decomposition on with c left the identity
\* whatever allow_reflections is.
IterateUpdateUncorrected(reg, sums, svd) ==
    LET rotation == MatMul(svd.u, svd.v_t)
        trace == Trace(FromDiagonal(svd.singular_values))
        scale == IF reg.rigid.scale THEN FDiv(trace, FSub(sums.sc, sums.sd)) ELSE reg.scale
        sigma2 == IF reg.rigid.scale
                  THEN FAbs(FDiv(FSub(FSub(sums.sa, sums.sb), FMul(scale, trace)),
                                 sums.denominator))
                  ELSE FAbs(FDiv(FSub(FSub(FAdd(FSub(sums.sa, sums.sb), sums.sc), sums.sd),
                                      FMul(F(2), trace)),
                                 sums.denominator))
    IN  [registration |->
            [reg EXCEPT !.rotation = rotation,
                        !.scale = scale,
                        !.translation =
                            VecSub(sums.mu_fixed,
                                   MulVec(Scale(scale, rotation), sums.mu_moving))],
         sigma2 |-> sigma2]

\* Registration::iterate from the decomposition on, given the sums and the
\* factors svd of the matrix a: the registration after the update and the
\* sigma2 it returns.
IterateUpdate(reg, sums, svd) ==
    LET cm == IF ~reg.rigid.allow_reflections
              THEN [Identity EXCEPT ![D][D] = Det(MatMul(svd.u, svd.v_t))]
              ELSE Identity
        rotation == MatMul(MatMul(svd.u, cm), svd.v_t)
        trace == Trace(MatMul(FromDiagonal(svd.singular_values), cm))
        scale == IF reg.rigid.scale THEN FDiv(trace, FSub(sums.sc, sums.sd)) ELSE reg.scale
        sigma2 == IF reg.rigid.scale
                  THEN FAbs(FDiv(FSub(FSub(sums.sa, sums.sb), FMul(scale, trace)),
                                 sums.denominator))
                  ELSE FAbs(FDiv(FSub(FSub(FAdd(FSub(sums.sa, sums.sb), sums.sc), sums.sd),
                                      FMul(F(2), trace)),
                                 sums.denominator))
    IN  [registration |->
            [reg EXCEPT !.rotation = rotation,
                        !.scale = scale,
                        !.translation =
                            VecSub(sums.mu_fixed,
                                   MulVec(Scale(scale, rotation), sums.mu_moving))],
         sigma2 |-> sigma2]

\* Registration::iterate with the factors svd of its matrix a.
iterate(reg, fx, mv, pr, svd) == IterateUpdate(reg, IterateSums(fx, mv, pr), svd)

\* Registration::transform: scale * moving * rotation, the translation added
\* to each column.
transform(reg, mv) ==
    LET scaled == MatMul(Scale(reg.scale, mv), reg.rotation)
    IN  Vec([n \in 1 .. Len(mv) |-> Vec([d \in Dims |-> FAdd(scaled[n][d], reg.translation[d])])])

\* Registration::denormalize with the translation taken from the scale as it
\* was before the call.
DenormalizeStaleScale(reg, nz) ==
    [reg EXCEPT
        !.scale = FMul(reg.scale, FDiv(nz.fixed.scale, nz.moving.scale)),
        !.translation =
            VecSub(VecAdd(ScaleVec(nz.fixed.scale, reg.translation), nz.fixed.offset),
                   MulVec(Scale(reg.scale, reg.rotation), nz.moving.offset))]

\* Registration::denormalize.
denormalize(reg, nz) ==
    LET scale == FMul(reg.scale, FDiv(nz.fixed.scale, nz.moving.scale))
    IN  [reg EXCEPT
            !.scale = scale,
            !.translation =
                VecSub(VecAdd(ScaleVec(nz.fixed.scale, reg.translation), nz.fixed.offset),
                       MulVec(Scale(scale, reg.rotation), nz.moving.offset))]

\* From<Registration> for Transform with the scale always given.
IntoTransformWithScale(reg) ==
    [rotation |-> reg.rotation,
     scale |-> Some(reg.scale),
     translation |-> reg.translation]

\* From<Registration> for Transform.
IntoTransform(reg) ==
    [rotation |-> reg.rotation,
     scale |-> IF reg.rigid.scale THEN Some(reg.scale) ELSE None,
     translation |-> reg.translation]


\* ------------------------------------------------------------ the state

VARIABLES
    runner,         \* the Runner builder value
    rigid,          \* the Rigid builder value (it holds its own Runner)
    registration,   \* the rigid Registration, None before as_registration
    pc,             \* where the call in progress stands
    this,           \* Runner::run: self
    fixed_in,       \* Runner::run: the caller's fixed matrix
    moving_in,      \* Runner::run: the caller's moving matrix
    fixed,          \* Runner::run: the working copy of fixed
    moving,         \* Runner::run: the working copy of moving
    normalization,  \* Runner::run: the Option<Normalization>
    error,          \* Runner::run: the previous error
    error_change,   \* Runner::run: the error change
    iterations,     \* Runner::run: the counter
    sigma2,         \* Runner::run: the current sigma2
    moved,          \* Runner::run: the moved matrix
    transformer,    \* Runner::run: the Transformer
    probs,          \* Runner::run: the Probabilities of the iteration
    result,         \* what the call returned: Ok(Run) or Err
    calls           \* the numeric routines the call has run, in order

vars == <<runner, rigid, registration, pc, this, fixed_in, moving_in, fixed, moving,
          normalization, error, error_change, iterations, sigma2, moved, transformer,
          probs, result, calls>>

locals == <<fixed, moving, normalization, error, error_change, iterations, sigma2,
            moved, transformer, probs>>

\* The number of loop iterations of a run the model follows.
MaxIterations == 2

\* The number of builder settings a caller changes from their defaults.
MaxSettings == 2

\* runner.rs: the defaults of Runner.
DEFAULT_MAX_ITERATIONS == 150

\* DEFAULT_ERROR_CHANGE_THRESHOLD, 1e-5.
DEFAULT_ERROR_CHANGE_THRESHOLD == <<1, 100000>>

\* DEFAULT_OUTLIER_WEIGHT, 0.1.
DEFAULT_OUTLIER_WEIGHT == <<1, 10>>

\* DEFAULT_SIGMA2_THRESHOLD, f64::EPSILON * 10: a positive value below every
\* positive sigma2 of the model.
DEFAULT_SIGMA2_THRESHOLD == <<1, 100000>>

\* f64::MAX: a finite value above every finite value of the model.
F64_MAX == <<10000, 1>>

\* A local or a return value that has not been assigned yet.
Unset == [unset |-> TRUE]

RunnerDefault ==
    [error_change_threshold |-> DEFAULT_ERROR_CHANGE_THRESHOLD,
     max_iterations |-> DEFAULT_MAX_ITERATIONS,
     normalize |-> "SameScale",
     outlier_weight |-> DEFAULT_OUTLIER_WEIGHT,
     sigma2 |-> None,
     sigma2_threshold |-> DEFAULT_SIGMA2_THRESHOLD]

\* From<Runner> for Rigid, and Rigid::default.
RigidFrom(rn) == [allow_reflections |-> FALSE, runner |-> rn, scale |-> FALSE]

RigidDefault == RigidFrom(RunnerDefault)

\* The values the builder methods are called with.
Strategies == {"Independent", "SameScale", "None"}

OutlierWeights == {F(-1), Zero, DEFAULT_OUTLIER_WEIGHT, One, <<11, 10>>}

Sigma2Options == {None, Some(One), Some(<<1, 1000>>)}

ErrorChangeThresholds == {DEFAULT_ERROR_CHANGE_THRESHOLD, One}

MaxIterationsValues == (0 .. MaxIterations) \cup {DEFAULT_MAX_ITERATIONS}

\* The number of settings of a runner and a rigid builder that differ from
\* the defaults; a runner whose strategy is not the one of the rigid
\* builder's runner was set apart from it.
Settings(rn, rg) ==
    Cardinality({f \in DOMAIN rn : rn[f] # RunnerDefault[f]})
        + (IF rg.scale THEN 1 ELSE 0)
        + (IF rg.allow_reflections THEN 1 ELSE 0)
        + (IF rg.runner.normalize # rn.normalize THEN 1 ELSE 0)

\* The matrices a run is given: the two-point reference set, the reference
\* turned by a quarter (moving() * rotation), moved by -t, halved, and a
\* single point.
Reference == <<<<One, Zero>>, <<F(3), Zero>>>>

QuarterTurn == <<<<Zero, F(-1)>>, <<One, Zero>>>>

Shift == <<One, F(2)>>

Turned == MatMul(Reference, QuarterTurn)

Shifted == Vec([n \in 1 .. Len(Reference) |-> VecSub(Reference[n], Shift)])

Halved == Scale(<<1, 2>>, Reference)

Point == <<<<One, One>>>>

\* One point twice.
Twice == <<<<F(2), F(5)>>, <<F(2), F(5)>>>>

Inputs ==
    {<<Reference, Reference>>, <<Reference, Turned>>, <<Reference, Shifted>>,
     <<Reference, Halved>>, <<Reference, Twice>>, <<Point, Point>>, <<Point, Reference>>}

\* What exp returns for a finite negative argument, and what the error is
\* when it is finite.
ExpValues == {<<1, 2>>}

ErrorValues == {One, F(2)}

Init ==
    /\ runner = RunnerDefault
    /\ rigid = RigidDefault
    /\ registration = Unset
    /\ pc = "runner"
    /\ this = Unset
    /\ fixed_in = None
    /\ moving_in = None
    /\ fixed = None
    /\ moving = None
    /\ normalization = None
    /\ error = None
    /\ error_change = None
    /\ iterations = 0
    /\ sigma2 = None
    /\ moved = None
    /\ transformer = Unset
    /\ probs = Unset
    /\ result = Unset
    /\ calls = <<>>


\* ---------------------------------------------------------- the builders

\* The caller configures a runner, turns it into a rigid builder, configures
\* that, and then either registers with it or takes its registration and
\* hands it to a runner: the one it came from, or one given another
\* normalization strategy.

\* A builder method of Runner: self with one field replaced.
RunnerSet(field, v) ==
    /\ pc = "runner"
    /\ runner' = [runner EXCEPT ![field] = v]
    /\ Settings(runner', RigidFrom(runner')) <= MaxSettings
    /\ UNCHANGED <<rigid, registration, pc, this, fixed_in, moving_in, locals, result, calls>>

\* Runner::error_change_threshold.
RunnerErrorChangeThreshold(v) == RunnerSet("error_change_threshold", v)

\* Runner::max_iterations.
RunnerMaxIterations(n) == RunnerSet("max_iterations", n)

\* Runner::outlier_weight: any value is stored.
RunnerOutlierWeight(w) == RunnerSet("outlier_weight", w)

\* Runner::sigma2.
RunnerSigma2(opt) == RunnerSet("sigma2", opt)

\* Runner::normalize, on the runner being configured or on a copy of it once
\* the registration is taken.
RunnerNormalize(strategy) ==
    /\ pc \in {"runner", "registration"}
    /\ runner' = [runner EXCEPT !.normalize = strategy]
    /\ Settings(runner', IF pc = "runner" THEN RigidFrom(runner') ELSE rigid) <= MaxSettings
    /\ UNCHANGED <<rigid, registration, pc, this, fixed_in, moving_in, locals, result, calls>>

\* Runner::rigid: a Rigid with the defaults and a copy of this runner.
RunnerRigid ==
    /\ pc = "runner"
    /\ rigid' = RigidFrom(runner)
    /\ pc' = "rigid"
    /\ UNCHANGED <<runner, registration, this, fixed_in, moving_in, locals, result, calls>>

\* A builder method of Rigid.
RigidSet(field, b) ==
    /\ pc = "rigid"
    /\ rigid' = [rigid EXCEPT ![field] = b]
    /\ Settings(runner, rigid') <= MaxSettings
    /\ UNCHANGED <<runner, registration, pc, this, fixed_in, moving_in, locals, result, calls>>

\* Rigid::allow_reflections.
RigidAllowReflections(b) == RigidSet("allow_reflections", b)

\* Rigid::scale.
RigidScale(b) == RigidSet("scale", b)

\* Rigid::as_registration: Registration::new(self).
RigidAsRegistration ==
    /\ pc = "rigid"
    /\ LET r == RegistrationNew(rigid)
       IN  IF IsOk(r)
           THEN registration' = r.ok /\ result' = Unset /\ pc' = "registration"
           ELSE registration' = Unset /\ result' = r /\ pc' = "failed"
    /\ UNCHANGED <<runner, rigid, this, fixed_in, moving_in, locals, calls>>

\* ------------------------------------------------------------- the calls

\* Rigid::register (rigid/mod.rs 152-153): as_registration()?, then
\* self.runner.run(fixed, moving, registration) is entered.
RigidRegister(fx, mv) ==
    /\ pc = "rigid"
    /\ LET r == RegistrationNew(rigid)
       IN  IF IsOk(r)
           THEN /\ registration' = r.ok
                /\ this' = rigid.runner
                /\ fixed_in' = fx
                /\ moving_in' = mv
                /\ pc' = "normalize"
                /\ UNCHANGED result
           ELSE /\ result' = r
                /\ pc' = "failed"
                /\ UNCHANGED <<registration, this, fixed_in, moving_in>>
    /\ UNCHANGED <<runner, rigid, locals, calls>>

\* Runner::run is entered with a registration obtained from as_registration.
RunnerRun(fx, mv) ==
    /\ pc = "registration"
    /\ this' = runner
    /\ fixed_in' = fx
    /\ moving_in' = mv
    /\ pc' = "normalize"
    /\ UNCHANGED <<runner, rigid, registration, locals, result, calls>>

\* runner.rs 198: self.normalize.normalize(fixed, moving).
RunNormalize ==
    /\ pc = "normalize"
    /\ LET r == NormalizeNormalize(this.normalize, fixed_in, moving_in)
       IN  /\ fixed' = r.fixed
           /\ moving' = r.moving
           /\ normalization' = r.normalization
    /\ calls' = Append(calls, "normalize")
    /\ pc' = "locals"
    /\ UNCHANGED <<runner, rigid, registration, this, fixed_in, moving_in, error,
                   error_change, iterations, sigma2, moved, transformer, probs, result>>

\* runner.rs 199-203 with the default sigma2 taken from the matrices the run
\* was given.
RunLocalsOnInputs ==
    /\ pc = "locals"
    /\ error' = Zero
    /\ error_change' = F64_MAX
    /\ iterations' = 0
    /\ sigma2' = unwrap_or(this.sigma2, runner_sigma2(fixed_in, moving_in))
    /\ moved' = moving
    /\ calls' = Append(calls, "sigma2")
    /\ pc' = "transformer"
    /\ UNCHANGED <<runner, rigid, registration, this, fixed_in, moving_in, fixed, moving,
                   normalization, transformer, probs, result>>

\* runner.rs 199-203: the locals; the default sigma2 is computed whether or
\* not an initial sigma2 is configured.
RunLocals ==
    /\ pc = "locals"
    /\ error' = Zero
    /\ error_change' = F64_MAX
    /\ iterations' = 0
    /\ sigma2' = unwrap_or(this.sigma2, runner_sigma2(fixed, moving))
    /\ moved' = moving
    /\ calls' = Append(calls, "sigma2")
    /\ pc' = "transformer"
    /\ UNCHANGED <<runner, rigid, registration, this, fixed_in, moving_in, fixed, moving,
                   normalization, transformer, probs, result>>

\* runner.rs 204: Transformer::new(&fixed, self.outlier_weight)?.
RunTransformer ==
    /\ pc = "transformer"
    /\ LET r == TransformerNew(fixed, this.outlier_weight)
       IN  IF IsOk(r)
           THEN transformer' = r.ok /\ pc' = "loop" /\ UNCHANGED result
           ELSE result' = r /\ pc' = "failed" /\ UNCHANGED transformer
    /\ UNCHANGED <<runner, rigid, registration, this, fixed_in, moving_in, fixed, moving,
                   normalization, error, error_change, iterations, sigma2, moved, probs,
                   calls>>

\* runner.rs 205-206 without the comparison of the counter with the limit.
LoopConditionWithoutLimit ==
    /\ FLt(this.error_change_threshold, error_change)
    /\ FLt(this.sigma2_threshold, sigma2)

\* runner.rs 205-206 with the counter allowed to reach the limit.
LoopConditionInclusive ==
    /\ iterations <= this.max_iterations
    /\ FLt(this.error_change_threshold, error_change)
    /\ FLt(this.sigma2_threshold, sigma2)

\* runner.rs 205-206: the condition of the while loop.
LoopCondition ==
    /\ iterations < this.max_iterations
    /\ FLt(this.error_change_threshold, error_change)
    /\ FLt(this.sigma2_threshold, sigma2)

\* runner.rs 205-219 with moved recomputed before the rigid update, from the
\* registration of the pass before.
RunIterationMovedFirst(q) ==
    /\ pc = "loop"
    /\ LoopCondition
    /\ iterations < MaxIterations
    /\ \E c \in {Correspondence(transformer, moved, sigma2, q)} :
       \E sums \in {IterateSums(fixed, moving, c)} :
       \E e \in ErrorValues, svd \in Svd(sums.a) :
       \E pr \in {Probabilities(c, ProbabilitiesError(transformer, c.sp, sigma2, e))},
          r \in {IterateUpdate(registration, sums, svd)} :
           /\ probs' = pr
           /\ error_change' = FAbs(FDiv(FSub(pr.error, error), pr.error))
           /\ error' = pr.error
           /\ registration' = r.registration
           /\ sigma2' = r.sigma2
           /\ moved' = transform(registration, moving)
    /\ iterations' = iterations + 1
    /\ calls' = calls \o <<"probabilities", "iterate", "transform">>
    /\ UNCHANGED <<runner, rigid, pc, this, fixed_in, moving_in, fixed, moving,
                   normalization, transformer, result>>

\* runner.rs 205-219: one pass of the loop body.  The correspondence step
\* reads moved and sigma2; the rigid update reads the working copies and the
\* probabilities and gives the next sigma2; moved is then recomputed.
RunIteration(q) ==
    /\ pc = "loop"
    /\ LoopCondition
    /\ iterations < MaxIterations
    /\ \E c \in {Correspondence(transformer, moved, sigma2, q)} :
       \E sums \in {IterateSums(fixed, moving, c)} :
       \E e \in ErrorValues, svd \in Svd(sums.a) :
       \E pr \in {Probabilities(c, ProbabilitiesError(transformer, c.sp, sigma2, e))},
          r \in {IterateUpdate(registration, sums, svd)} :
           /\ probs' = pr
           /\ error_change' = FAbs(FDiv(FSub(pr.error, error), pr.error))
           /\ error' = pr.error
           /\ registration' = r.registration
           /\ sigma2' = r.sigma2
           /\ moved' = transform(r.registration, moving)
    /\ iterations' = iterations + 1
    /\ calls' = calls \o <<"probabilities", "iterate", "transform">>
    /\ UNCHANGED <<runner, rigid, pc, this, fixed_in, moving_in, fixed, moving,
                   normalization, transformer, result>>

\* runner.rs 221-224: the loop is left; with a normalization the registration
\* and the moving working copy are denormalized.
RunDenormalize ==
    /\ pc = "loop"
    /\ ~LoopCondition
    /\ IF IsSome(normalization)
       THEN /\ registration' = denormalize(registration, unwrap(normalization))
            /\ moving' = ParametersDenormalize(unwrap(normalization).moving, moving)
            /\ calls' = Append(calls, "denormalize")
       ELSE UNCHANGED <<registration, moving, calls>>
    /\ pc' = "return"
    /\ UNCHANGED <<runner, rigid, this, fixed_in, moving_in, fixed, normalization, error,
                   error_change, iterations, sigma2, moved, transformer, probs, result>>

\* runner.rs 227 with the count equal to the limit taken as converged.
ConvergedAtLimit(its, max_iterations) == its <= max_iterations

\* runner.rs 227: converged: iterations < self.max_iterations.
Converged(its, max_iterations) == its < max_iterations

\* runner.rs 225-231: the final moved matrix and the Run.
RunReturn ==
    /\ pc = "return"
    /\ moved' = transform(registration, moving)
    /\ result' = [ok |-> [converged |-> Converged(iterations, this.max_iterations),
                          iterations |-> iterations,
                          moved |-> moved',
                          transform |-> IntoTransform(registration)]]
    /\ calls' = Append(calls, "transform")
    /\ pc' = "done"
    /\ UNCHANGED <<runner, rigid, registration, this, fixed_in, moving_in, fixed, moving,
                   normalization, error, error_change, iterations, sigma2, transformer,
                   probs>>

Next ==
    \/ \E v \in ErrorChangeThresholds : RunnerErrorChangeThreshold(v)
    \/ \E n \in MaxIterationsValues : RunnerMaxIterations(n)
    \/ \E strategy \in Strategies : RunnerNormalize(strategy)
    \/ \E w \in OutlierWeights : RunnerOutlierWeight(w)
    \/ \E opt \in Sigma2Options : RunnerSigma2(opt)
    \/ RunnerRigid
    \/ \E b \in BOOLEAN : RigidAllowReflections(b)
    \/ \E b \in BOOLEAN : RigidScale(b)
    \/ RigidAsRegistration
    \/ \E io \in Inputs : RigidRegister(io[1], io[2])
    \/ \E io \in Inputs : RunnerRun(io[1], io[2])
    \/ RunNormalize
    \/ RunLocals
    \/ RunTransformer
    \/ \E q \in ExpValues : RunIteration(q)
    \/ RunDenormalize
    \/ RunReturn

Spec == Init /\ [][Next]_vars


\* ------------------------------------------- the functions on their own

\* The public functions called directly on matrices of the caller's, as the
\* unit tests and the doc tests of the repository call them: runner::sigma2,
\* Normalize::normalize followed by Parameters::denormalize,
\* Transformer::probabilities and Registration::iterate.

\* utils::matrix2_from_slice(&[1., 2., 3., 4.]), column-major: the rows
\* (1, 3) and (2, 4).
TestMatrix == <<<<One, F(3)>>, <<F(2), F(4)>>>>

\* The matrices whose Parameters::new scale has a rational root.
Matrices == {Reference, Turned, Shifted, Halved, Twice, Point}

\* The outlier weights Transformer::new accepts that the functions are
\* called with, and the values of sigma2.
AcceptedWeights == {Zero, DEFAULT_OUTLIER_WEIGHT, One}

Sigma2Values == {One, <<1, 1000>>}

FnInit ==
    /\ runner = RunnerDefault
    /\ rigid \in {[RigidDefault EXCEPT !.allow_reflections = a, !.scale = b] :
                    a \in BOOLEAN, b \in BOOLEAN}
    /\ registration = Unset
    /\ pc = "fn"
    /\ this = Unset
    /\ fixed_in \in Matrices \cup {TestMatrix}
    /\ moving_in \in Matrices \cup {TestMatrix}
    /\ fixed = None
    /\ moving = None
    /\ normalization = None
    /\ error = None
    /\ error_change = None
    /\ iterations = 0
    /\ sigma2 = None
    /\ moved = None
    /\ transformer = Unset
    /\ probs = Unset
    /\ result = Unset
    /\ calls = <<>>

\* runner::sigma2(&fixed, &moving).
FnSigma2 ==
    /\ pc = "fn"
    /\ sigma2' = runner_sigma2(fixed_in, moving_in)
    /\ pc' = "fn_sigma2"
    /\ UNCHANGED <<runner, rigid, registration, this, fixed_in, moving_in, fixed, moving,
                   normalization, error, error_change, iterations, moved, transformer,
                   probs, result, calls>>

\* strategy.normalize(&fixed, &moving); this holds the strategy.
FnNormalize(strategy) ==
    /\ pc = "fn"
    /\ fixed_in \in Matrices /\ moving_in \in Matrices
    /\ LET r == NormalizeNormalize(strategy, fixed_in, moving_in)
       IN  /\ fixed' = r.fixed
           /\ moving' = r.moving
           /\ normalization' = r.normalization
    /\ this' = [RunnerDefault EXCEPT !.normalize = strategy]
    /\ pc' = "fn_normalized"
    /\ UNCHANGED <<runner, rigid, registration, fixed_in, moving_in, error, error_change,
                   iterations, sigma2, moved, transformer, probs, result, calls>>

\* normalization.fixed.denormalize(&mut fixed2) and
\* normalization.moving.denormalize(&mut moving2) (normalize.rs 116-121).
FnDenormalize ==
    /\ pc = "fn_normalized"
    /\ IsSome(normalization)
    /\ fixed' = ParametersDenormalize(unwrap(normalization).fixed, fixed)
    /\ moving' = ParametersDenormalize(unwrap(normalization).moving, moving)
    /\ pc' = "fn_denormalized"
    /\ UNCHANGED <<runner, rigid, registration, this, fixed_in, moving_in, normalization,
                   error, error_change, iterations, sigma2, moved, transformer, probs,
                   result, calls>>

\* Transformer::new(&fixed, w).unwrap().probabilities(&moving, s2).
FnProbabilities(w, s2, q, e) ==
    /\ pc = "fn"
    /\ LET r == TransformerNew(fixed_in, w)
       IN  /\ IsOk(r)
           /\ transformer' = r.ok
           /\ probs' = probabilities(r.ok, moving_in, s2, q, e)
    /\ sigma2' = s2
    /\ moved' = moving_in
    /\ pc' = "fn_probabilities"
    /\ UNCHANGED <<runner, rigid, registration, this, fixed_in, moving_in, fixed, moving,
                   normalization, error, error_change, iterations, result, calls>>

\* rigid.as_registration().unwrap().iterate(&fixed, &moving, &probabilities);
\* result holds the factors svd returned and the sigma2 iterate returned.
FnIterate ==
    /\ pc = "fn_probabilities"
    /\ LET sums == IterateSums(fixed_in, moving_in, probs)
       IN  \E svd \in Svd(sums.a) :
               LET r == IterateUpdate(RegistrationNew(rigid).ok, sums, svd)
               IN  /\ registration' = r.registration
                   /\ result' = [svd |-> svd, sigma2 |-> r.sigma2]
    /\ pc' = "fn_iterated"
    /\ UNCHANGED <<runner, rigid, this, fixed_in, moving_in, fixed, moving, normalization,
                   error, error_change, iterations, sigma2, moved, transformer, probs,
                   calls>>

FnNext ==
    \/ FnSigma2
    \/ \E strategy \in Strategies : FnNormalize(strategy)
    \/ FnDenormalize
    \/ \E w \in AcceptedWeights, s2 \in Sigma2Values, q \in ExpValues, e \in ErrorValues :
           FnProbabilities(w, s2, q, e)
    \/ FnIterate

FnSpec == FnInit /\ [][FnNext]_vars

\* ------------------------------------------------------------ the claims

IsSet(x) == "unset" \notin DOMAIN x

Failed(kind) == pc = "failed" /\ IsErr(result) /\ result.err = kind

Done == pc = "done" /\ IsOk(result)

\* C1: in Runner::run and Rigid::register an outlier_weight outside [0, 1]
\* is rejected before any matrix computation: when the call has returned
\* InvalidOutlierWeight, no normalization of the inputs, no computation of
\* the initial sigma2 and no iteration step has run.
C1_RejectedBeforeAnyComputation ==
    Failed("InvalidOutlierWeight") => calls = <<>>

\* C2: Transformer::new returns Err(InvalidOutlierWeight(w)) carrying w
\* whenever w < 0 or w > 1 and Ok for every 0 <= w <= 1; the outlier weight
\* (and the fixed matrix) of a constructed transformer stay what it was
\* constructed with through every call of probabilities.
C2_TransformerNew ==
    /\ Failed("InvalidOutlierWeight") =>
          /\ FLt(this.outlier_weight, Zero) \/ FGt(this.outlier_weight, One)
          /\ result.value = this.outlier_weight
          /\ ~IsSet(transformer)
    /\ pc \in {"loop", "return", "done"} =>
          /\ FLe(Zero, this.outlier_weight) /\ FLe(this.outlier_weight, One)
          /\ IsSet(transformer)
          /\ transformer.outlier_weight = this.outlier_weight
          /\ transformer.fixed = fixed

\* A run rejected for a weight above 1, the error carrying it.
C2_Witness ==
    /\ Failed("InvalidOutlierWeight")
    /\ result.value = <<11, 10>>

\* C3: Registration::new, Rigid::as_registration and Rigid::register return
\* CannotNormalizeIndependentlyWithoutScale exactly when the Rigid's runner
\* normalizes independently and scale is false, before any normalization,
\* sigma2 computation or iteration; every other combination gives a
\* registration with the identity rotation, scale 1 and a zero translation.
C3_RegistrationNew ==
    /\ Failed("CannotNormalizeIndependentlyWithoutScale") =>
          /\ rigid.runner.normalize = "Independent" /\ ~rigid.scale
          /\ calls = <<>>
          /\ ~IsSet(registration)
    /\ pc \notin {"runner", "rigid"} /\ rigid.runner.normalize = "Independent" /\ ~rigid.scale =>
          Failed("CannotNormalizeIndependentlyWithoutScale")
    /\ pc \in {"registration", "normalize"} =>
          registration = [rigid |-> rigid, rotation |-> Identity, scale |-> One,
                          translation |-> Zeros]

\* Rigid::register or as_registration has refused the combination.
C3_Witness ==
    /\ Failed("CannotNormalizeIndependentlyWithoutScale")
    /\ rigid.runner.normalize = "Independent"
    /\ ~rigid.scale


\* The loop was left with a threshold comparison of its condition false:
\* error change <= error_change_threshold or sigma2 <= sigma2_threshold (a
\* NaN, which no comparison holds for, stops the loop the same way).
ThresholdHit ==
    \/ ~FLt(this.error_change_threshold, error_change)
    \/ ~FLt(this.sigma2_threshold, sigma2)

\* C4 as stated: the returned Run has converged = true if and only if a
\* threshold was hit at loop exit, and converged = false if and only if the
\* loop stopped only because the count reached max_iterations with no
\* threshold hit.
C4_ConvergedIffThresholdHit ==
    Done =>
        /\ result.ok.converged <=> ThresholdHit
        /\ ~result.ok.converged <=> (iterations = this.max_iterations /\ ~ThresholdHit)

\* C4 as the code has it: converged = true if and only if the loop was left
\* with iterations < max_iterations, and then a threshold was hit;
\* converged = false if and only if the count reached max_iterations,
\* whether or not a threshold was hit by then as well.
C4_ConvergedIffBelowLimit ==
    Done =>
        /\ result.ok.converged <=> iterations < this.max_iterations
        /\ result.ok.converged => ThresholdHit
        /\ ~result.ok.converged <=> iterations = this.max_iterations

\* A run that met a threshold in the very iteration that reached the limit.
C4_Witness ==
    /\ Done
    /\ ~result.ok.converged
    /\ iterations > 0
    /\ IsFinite(error_change) /\ IsFinite(sigma2)
    /\ ThresholdHit

\* C5: when an iteration yields a non-finite error, error change or sigma2,
\* Runner::run never returns Ok.
C5_NonFiniteNeverOk ==
    /\ pc = "done"
    /\ iterations > 0
    /\ ~IsFinite(error) \/ ~IsFinite(error_change) \/ ~IsFinite(sigma2)
    => ~IsOk(result)

\* C6: when the loop has performed max_iterations iterations without either
\* threshold being met, Runner::run returns Ok with converged = false,
\* iterations = max_iterations, a moved matrix with a row for every moving
\* point and a transform with a D x D rotation and a translation of length D;
\* nothing fails once the loop is entered.
C6_ExhaustedIsOk ==
    /\ pc = "failed" => iterations = 0 /\ ~IsSet(probs)
    /\ (pc = "done" /\ iterations = this.max_iterations /\ ~ThresholdHit) =>
          /\ IsOk(result)
          /\ ~result.ok.converged
          /\ result.ok.iterations = this.max_iterations
          /\ Len(result.ok.moved) = Len(moving_in)
          /\ \A n \in 1 .. Len(moving_in) : Len(result.ok.moved[n]) = D
          /\ Len(result.ok.transform.rotation) = D
          /\ \A d \in Dims : Len(result.ok.transform.rotation[d]) = D
          /\ Len(result.ok.transform.translation) = D

\* A run that used up a positive max_iterations with both values still above
\* their thresholds.
C6_Witness ==
    /\ Done
    /\ iterations = this.max_iterations
    /\ iterations > 0
    /\ ~ThresholdHit
    /\ MatFinite(result.ok.moved)

\* C7, the counter: it stays within 0 .. max_iterations, and the returned
\* count and flag are the counter and iterations < max_iterations.
C7_Counter ==
    /\ IsSet(this) => iterations \in 0 .. this.max_iterations
    /\ Done =>
          /\ result.ok.iterations = iterations
          /\ result.ok.converged = (iterations < this.max_iterations)

\* C7, the step: an iteration is started only while iterations <
\* max_iterations, error change > error_change_threshold and sigma2 >
\* sigma2_threshold, and adds exactly one to the counter; nothing else
\* changes the counter of a run.
C7_Step ==
    /\ iterations' # iterations =>
          /\ pc = "loop"
          /\ iterations < this.max_iterations
          /\ FGt(error_change, this.error_change_threshold)
          /\ FGt(sigma2, this.sigma2_threshold)
          /\ iterations' = iterations + 1
    /\ (pc = "loop" /\ pc' = "loop") => iterations' = iterations + 1

\* C7: the loop of Runner::run terminates: every pass of the loop is started
\* only while iterations < max_iterations and both values are above their
\* thresholds, every pass adds exactly one to the counter and nothing else
\* moves it, so max_iterations - iterations is a variant that no run can
\* decrease more than max_iterations times; the returned count is within
\* 0 .. max_iterations and the returned flag is iterations < max_iterations.
C7_LoopTerminates ==
    /\ []C7_Counter
    /\ [][C7_Step]_vars

\* A run returned after its loop ran max_iterations >= 2 times.
C7_Witness ==
    /\ Done
    /\ result.ok.iterations = this.max_iterations
    /\ result.ok.iterations >= 2

\* The returned transform applied to a matrix: scale * m * rotation with the
\* translation added to each column, the scale 1 when absent.
Apply(t, m) ==
    transform([rotation |-> t.rotation, scale |-> unwrap_or(t.scale, One),
               translation |-> t.translation], m)

\* C8: in every returned Run, moved is the returned transform applied to the
\* moving matrix the caller gave.
C8_MovedIsTransformOfMoving ==
    Done => result.ok.moved = Apply(result.ok.transform, moving_in)

\* C9: the Transform a rigid run returns has scale = Some(s) if and only if
\* scaling was enabled on the Rigid builder the registration came from.
C9_ScaleIffEnabled ==
    Done => (IsSome(result.ok.transform.scale) <=> rigid.scale)

\* A run with scaling enabled returned its scale after iterating.
C9_Witness ==
    /\ Done
    /\ rigid.scale
    /\ iterations > 0
    /\ IsSome(result.ok.transform.scale)
    /\ IsFinite(unwrap(result.ok.transform.scale))

\* C10 for the rotated input: a converged rigid run on the reference points
\* and the reference points multiplied by the quarter turn returns moved
\* equal to fixed together with the quarter turn as rotation and a zero
\* translation; here in the weaker form that a run which did return that
\* rotation and translation, unscaled, has moved equal to fixed.
C10_KnownRotationRecovered ==
    /\ Done
    /\ this.normalize = rigid.runner.normalize
    /\ fixed_in = Reference /\ moving_in = Turned
    /\ result.ok.converged
    /\ result.ok.iterations > 0
    /\ result.ok.transform.rotation = QuarterTurn
    /\ result.ok.transform.translation = Zeros
    /\ unwrap_or(result.ok.transform.scale, One) = One
    => result.ok.moved = fixed_in

\* C11: for every matrix and the parameters Normalize::normalize produced for
\* it, denormalizing the normalized matrix with those parameters gives the
\* matrix back: after normalization.fixed.denormalize and
\* normalization.moving.denormalize the two working copies are the caller's
\* matrices.
C11_RoundTrip ==
    pc = "fn_denormalized" => (fixed = fixed_in /\ moving = moving_in)

\* Every entry of pt1 lies in [0, 1] and every entry of p1 is >= 0.
InRange(pr) ==
    /\ \A n \in 1 .. Len(pr.pt1) : FLe(Zero, pr.pt1[n]) /\ FLe(pr.pt1[n], One)
    /\ \A m \in 1 .. Len(pr.p1) : FLe(Zero, pr.p1[m])

\* C12: for every fixed and moving matrix, every sigma2 > 0 and every outlier
\* weight Transformer::new accepts, 0 and 1 included, every entry of pt1
\* returned by Transformer::probabilities lies in [0, 1] and every entry of
\* p1 is >= 0.
C12_ProbabilitiesInRange ==
    (pc = "fn_probabilities" /\ FGt(sigma2, Zero)) => InRange(probs)

\* C13 as stated: for an N-row fixed and an M-row moving matrix the
\* Probabilities returned by Transformer::probabilities have p1 of length M,
\* pt1 of length N and px of shape N x D, one row per fixed point.
C13_PxPerFixedPoint ==
    pc = "fn_probabilities" =>
        /\ Len(probs.p1) = nrows(moving_in)
        /\ Len(probs.pt1) = nrows(fixed_in)
        /\ Len(probs.px) = nrows(fixed_in)
        /\ \A n \in 1 .. Len(probs.px) : Len(probs.px[n]) = D

\* C13 as the code has it: p1 has length M, pt1 has length N and px has
\* shape M x D, one row per moving point.
C13_PxPerMovingPoint ==
    pc = "fn_probabilities" =>
        /\ Len(probs.p1) = nrows(moving_in)
        /\ Len(probs.pt1) = nrows(fixed_in)
        /\ Len(probs.px) = nrows(moving_in)
        /\ \A m \in 1 .. Len(probs.px) : Len(probs.px[m]) = D

\* Probabilities of a one-row fixed and a two-row moving matrix, as in
\* tests::probabilities.
C13_Witness ==
    /\ pc = "fn_probabilities"
    /\ nrows(fixed_in) = 1
    /\ nrows(moving_in) = 2
    /\ Len(probs.px) = 2

\* The column means of a matrix.
ColumnMeans(m) == Vec([d \in Dims |-> FDiv(FSum(column(m, d)), F(nrows(m)))])

\* C14: Normalize::SameScale computes the parameters of fixed and of moving
\* separately and then gives both the arithmetic mean of the two computed
\* scales, each keeping its own offset, the column means of its matrix;
\* Normalize::Independent keeps the two separately computed scales.
C14_SameScaleIsMean ==
    (pc = "fn_normalized" /\ IsSome(normalization)) =>
        LET nz == unwrap(normalization)
            fs == ParametersNew(fixed_in).scale
            ms == ParametersNew(moving_in).scale
        IN  /\ nz.fixed.offset = ColumnMeans(fixed_in)
            /\ nz.moving.offset = ColumnMeans(moving_in)
            /\ this.normalize = "SameScale" =>
                  /\ nz.fixed.scale = nz.moving.scale
                  /\ nz.fixed.scale = FDiv(FAdd(fs, ms), F(2))
            /\ this.normalize = "Independent" =>
                  /\ nz.fixed.scale = fs
                  /\ nz.moving.scale = ms

\* SameScale on two matrices whose own scales and offsets differ.
C14_Witness ==
    /\ pc = "fn_normalized"
    /\ this.normalize = "SameScale"
    /\ ParametersNew(fixed_in).scale # ParametersNew(moving_in).scale
    /\ unwrap(normalization).fixed.scale = unwrap(normalization).moving.scale
    /\ unwrap(normalization).fixed.offset # unwrap(normalization).moving.offset

\* The positions of Runner::run after the call of Normalize::normalize.
Normalized == pc \in {"locals", "transformer", "loop", "return", "done"}

C15_Unchanged ==
    (Normalized /\ this.normalize = "None") =>
        /\ fixed = fixed_in
        /\ moving = moving_in
        /\ normalization = None
        /\ \A i \in 1 .. Len(calls) : calls[i] # "denormalize"

C15_NoDenormalization ==
    (pc = "loop" /\ pc' = "return" /\ this.normalize = "None") =>
        /\ registration' = registration
        /\ moving' = moving

\* C15: Normalize::None returns both matrices equal to the inputs and no
\* Normalization parameters, and a run configured with Normalize::None
\* leaves the registration and the moving matrix as they are when the loop is
\* left: no denormalization takes place.
C15_NoneIsIdentity ==
    /\ []C15_Unchanged
    /\ [][C15_NoDenormalization]_vars

\* A run with Normalize::None that iterated and returned.
C15_Witness ==
    /\ Done
    /\ this.normalize = "None"
    /\ result.ok.iterations > 0
    /\ normalization = None
    /\ moving = moving_in
    /\ fixed_in # moving_in

\* The sign of a number.
Sign(x) == IF FLt(x, Zero) THEN F(-1) ELSE IF FGt(x, Zero) THEN One ELSE x

\* m * Transpose(m) is the identity.
Orthogonal(m) == MatFinite(m) /\ MatMul(m, Transpose(m)) = Identity

\* C16: for orthogonal factors U and V^T of the decomposition, an update
\* with reflections disallowed stores rotation = U * C * V^T, C the identity
\* except C[last, last] = sign(det(U * V^T)), a matrix of determinant +1; an
\* update with reflections allowed stores rotation = U * V^T.
C16_RotationIsProper ==
    (pc = "fn_iterated" /\ Orthogonal(result.svd.u) /\ Orthogonal(result.svd.v_t)) =>
        LET u == result.svd.u
            v_t == result.svd.v_t
            c == [Identity EXCEPT ![D][D] = Sign(Det(MatMul(u, v_t)))]
        IN  IF rigid.allow_reflections
            THEN registration.rotation = MatMul(u, v_t)
            ELSE /\ registration.rotation = MatMul(MatMul(u, c), v_t)
                 /\ Det(registration.rotation) = One

\* An update with reflections disallowed whose factors multiply to a
\* reflection.
C16_Witness ==
    /\ pc = "fn_iterated"
    /\ ~rigid.allow_reflections
    /\ Orthogonal(result.svd.u) /\ Orthogonal(result.svd.v_t)
    /\ Det(MatMul(result.svd.u, result.svd.v_t)) = F(-1)
    /\ Det(registration.rotation) = One

\* The sum of the squares of the entries of a matrix, the trace of
\* Transpose(m) * m.
SumOfSquares(m) ==
    FSum(Vec([n \in 1 .. Len(m) |-> FSum(Vec([d \in Dims |-> FMul(m[n][d], m[n][d])]))]))

\* The sum of column d of a matrix.
ColumnSum(m, d) == FSum(Vec([n \in 1 .. Len(m) |-> m[n][d]]))

\* C17: runner::sigma2(fixed, moving), fixed of N rows and moving of M rows, is
\* [N * trace(fixed^T * fixed) + M * trace(moving^T * moving)
\*  - 2 * (columnSums(fixed) . columnSums(moving))] / (N * M * D), and is 0.5
\* for fixed = moving = the 2 x 2 matrix built column by column from 1, 2, 3, 4.
C17_Sigma2Formula ==
    pc = "fn_sigma2" =>
        LET N == Len(fixed_in)
            M == Len(moving_in)
            cross == FSum(Vec([d \in Dims |->
                        FMul(ColumnSum(fixed_in, d), ColumnSum(moving_in, d))]))
        IN  /\ sigma2 = FDiv(FSub(FAdd(FMul(F(N), SumOfSquares(fixed_in)),
                                       FMul(F(M), SumOfSquares(moving_in))),
                                  FMul(F(2), cross)),
                             F(N * M * D))
            /\ (fixed_in = TestMatrix /\ moving_in = TestMatrix) => sigma2 = <<1, 2>>

\* The default sigma2 of the matrix of the test with itself.
C17_Witness ==
    /\ pc = "fn_sigma2"
    /\ fixed_in = TestMatrix
    /\ moving_in = TestMatrix
    /\ sigma2 = <<1, 2>>

\* A pass of the loop body of Runner::run.
IterationStep == pc = "loop" /\ pc' = "loop" /\ iterations' # iterations

C18_FirstMoved ==
    (pc = "loop" /\ iterations = 0) => (moved = moving /\ transformer.fixed = fixed)

C18_Order ==
    IterationStep =>
        /\ iterations' = iterations + 1
        /\ fixed' = fixed
        /\ moving' = moving
        /\ transformer.fixed = fixed
        /\ error' = probs'.error
        /\ error_change' = FAbs(FDiv(FSub(probs'.error, error), probs'.error))
        /\ \E q \in ExpValues :
           \E c \in {Correspondence(transformer, moved, sigma2, q)} :
           \E e \in ErrorValues :
               probs' = Probabilities(c, ProbabilitiesError(transformer, c.sp, sigma2, e))
        /\ \E sums \in {IterateSums(fixed, moving, probs')} :
           \E svd \in Svd(sums.a) :
           \E r \in {IterateUpdate(registration, sums, svd)} :
               /\ registration' = r.registration
               /\ sigma2' = r.sigma2
        /\ moved' = transform(registration', moving)

\* C18: a pass of the loop computes the probabilities from the working fixed
\* copy, the moved matrix of the pass before (the working moving copy on the
\* first pass) and the current sigma2; sets the error change to
\* |(error - previous error) / error| and the previous error to the error;
\* updates the registration from the working fixed and moving copies and the
\* probabilities, the value returned becoming sigma2; recomputes moved as the
\* transform of the working moving copy; and adds one to the counter.  The
\* working copies are not changed.
C18_IterationOrder ==
    /\ []C18_FirstMoved
    /\ [][C18_Order]_vars

\* A second pass has run, from a moved matrix that was not the working moving
\* copy.
C18_Witness ==
    /\ pc = "loop"
    /\ iterations = 2
    /\ moved # moving
    /\ IsFinite(error_change)

\* How many times Registration::denormalize has been called.
Denormalizations == Cardinality({i \in 1 .. Len(calls) : calls[i] = "denormalize"})

C19_Once ==
    /\ pc \in {"locals", "transformer", "loop", "failed"} => Denormalizations = 0
    /\ pc \in {"return", "done"} =>
           Denormalizations = (IF IsSome(normalization) THEN 1 ELSE 0)

C19_Denormalize ==
    /\ (pc = "loop" /\ pc' = "return") =>
           IF IsSome(normalization)
           THEN LET nz == unwrap(normalization)
                    scale == FMul(registration.scale,
                                  FDiv(nz.fixed.scale, nz.moving.scale))
                IN  /\ registration'.scale = scale
                    /\ registration'.translation =
                           Vec([d \in Dims |->
                               FSub(FAdd(FMul(nz.fixed.scale, registration.translation[d]),
                                         nz.fixed.offset[d]),
                                    FSum(Vec([j \in Dims |->
                                        FMul(FMul(scale, registration.rotation[d][j]),
                                             nz.moving.offset[j])])))])
                    /\ registration'.rotation = registration.rotation
           ELSE registration' = registration
    /\ (pc = "return" /\ pc' = "done") =>
           /\ registration' = registration
           /\ result'.ok.transform.rotation = registration.rotation
           /\ result'.ok.transform.translation = registration.translation
           /\ IsSome(result'.ok.transform.scale) =>
                  unwrap(result'.ok.transform.scale) = registration.scale

\* C19: Registration::denormalize is called once in a run, when the loop has
\* been left, and only when there are normalization parameters: the scale is
\* multiplied by fixed scale / moving scale, the translation then becomes
\* fixed scale * translation + fixed offset - scale * rotation * moving offset
\* with the scale just updated, and the rotation is kept.  With no
\* parameters the rotation, scale and translation the loop ended with are
\* returned as they are.
C19_DenormalizedOnce ==
    /\ []C19_Once
    /\ [][C19_Denormalize]_vars

\* A run that iterated and denormalized with two different scales and a
\* moving offset.
C19_Witness ==
    /\ Done
    /\ IsSome(normalization)
    /\ result.ok.iterations > 0
    /\ Denormalizations = 1
    /\ unwrap(normalization).fixed.scale # unwrap(normalization).moving.scale
    /\ unwrap(normalization).moving.offset # Zeros
    /\ MatFinite(registration.rotation)
    /\ \A d \in Dims : IsFinite(registration.translation[d])

\* The registration as Registration::new leaves it.
InitialRegistration ==
    [registration EXCEPT !.rotation = Identity, !.scale = One, !.translation = Zeros]

\* The conditions under which the loop of Runner::run is entered; sigma2 is
\* the initial sigma2 as long as no pass has run.
Entered ==
    /\ this.max_iterations >= 1
    /\ FLt(this.sigma2_threshold, sigma2)
    /\ FLt(this.error_change_threshold, F64_MAX)

C20_Entry ==
    /\ (pc = "transformer" \/ (pc = "loop" /\ iterations = 0)) =>
           /\ error = Zero
           /\ error_change = F64_MAX
    /\ (pc = "loop" /\ iterations = 0) =>
           /\ Entered => LoopCondition
           /\ (this.max_iterations = 0 \/ FLe(sigma2, this.sigma2_threshold)) =>
                  ~LoopCondition
    /\ (pc \in {"return", "done"} /\ iterations = 0) => ~Entered
    /\ (Done /\ iterations = 0) =>
           /\ result.ok.iterations = 0
           /\ registration =
                  IF IsSome(normalization)
                  THEN denormalize(InitialRegistration, unwrap(normalization))
                  ELSE InitialRegistration
           /\ result.ok.transform = IntoTransform(registration)

C20_FirstPass ==
    (IterationStep /\ iterations = 0) =>
        /\ Entered
        /\ (IsFinite(error') /\ error' # Zero) => error_change' = One

\* C20: the loop of Runner::run is reached with the error change at the
\* largest float and the previous error at 0; with max_iterations >= 1, the
\* initial sigma2 above sigma2_threshold and error_change_threshold below the
\* largest float a first pass runs, and its error change is 1 for a finite
\* error other than 0; with max_iterations = 0 or the initial sigma2 at most
\* sigma2_threshold no pass runs, iterations = 0 is returned and the transform
\* is the identity, scale 1 and zero translation, denormalized when there are
\* normalization parameters.
C20_LoopEntry ==
    /\ []C20_Entry
    /\ [][C20_FirstPass]_vars

\* A first pass has run with a finite error other than 0.
C20_Witness ==
    /\ pc = "loop"
    /\ iterations = 1
    /\ IsFinite(error) /\ error # Zero
    /\ error_change = One

\* The run is at its loop and no pass has run yet.
BeforeFirstPass == pc = "transformer" \/ (pc = "loop" /\ iterations = 0)

C21_Initial ==
    BeforeFirstPass =>
        LET r == NormalizeNormalize(this.normalize, fixed_in, moving_in)
        IN  /\ fixed = r.fixed
            /\ moving = r.moving
            /\ sigma2 = IF IsSome(this.sigma2)
                        THEN unwrap(this.sigma2)
                        ELSE runner_sigma2(r.fixed, r.moving)

C21_Restore ==
    (IsSome(runner.sigma2) /\ runner'.sigma2 = None) =>
        /\ runner' = [runner EXCEPT !.sigma2 = RunnerDefault.sigma2]
        /\ UNCHANGED <<rigid, pc>>

\* C21: the sigma2 the first pass of Runner::run reads is the configured
\* initial sigma2 when Runner::sigma2 was given a value, and otherwise the
\* default sigma2 of the normalized working copies of fixed and moving, not
\* of the matrices the run was given; Runner::sigma2(None) after a value
\* puts the runner back to computing the default.
C21_InitialSigma2 ==
    /\ []C21_Initial
    /\ [][C21_Restore]_vars

\* A run with no configured sigma2 whose normalized copies have another
\* default sigma2 than the matrices it was given.
C21_Witness ==
    /\ pc = "loop"
    /\ iterations = 0
    /\ this.sigma2 = None
    /\ fixed # fixed_in
    /\ IsFinite(sigma2)
    /\ sigma2 # runner_sigma2(fixed_in, moving_in)

\* C22: no pass of the loop runs with Independent normalization and a
\* registration whose rigid has scaling disabled; the strategy Runner::run
\* applies is the one of the runner the registration was validated against
\* in Registration::new, also when Runner::run is called with a registration
\* taken from a rigid configured apart from the runner.
C22_ValidatedStrategy ==
    (pc \in {"loop", "return", "done"} /\ iterations > 0) =>
        /\ ~(this.normalize = "Independent" /\ ~registration.rigid.scale)
        /\ this.normalize = registration.rigid.runner.normalize

\* The registration holds a rotation of determinant 1 and a finite scale and
\* translation.
ProperTransform(reg) ==
    /\ Orthogonal(reg.rotation)
    /\ Det(reg.rotation) = One
    /\ IsFinite(reg.scale)
    /\ \A d \in Dims : IsFinite(reg.translation[d])

\* C23: after Registration::iterate the stored transform maps the weighted
\* centroid of moving onto the weighted centroid of fixed:
\* Registration::transform of the single row mu_moving is the row mu_fixed.
C23_CentroidMapped ==
    (pc = "fn_iterated" /\ ProperTransform(registration)) =>
        LET sums == IterateSums(fixed_in, moving_in, probs)
        IN  (\A d \in Dims : IsFinite(sums.mu_fixed[d]) /\ IsFinite(sums.mu_moving[d])) =>
                transform(registration, <<sums.mu_moving>>) = <<sums.mu_fixed>>

\* Normalization parameters with finite scales other than zero and finite
\* offsets.
UsableParameters(nz) ==
    /\ IsFinite(nz.fixed.scale) /\ nz.fixed.scale # Zero
    /\ IsFinite(nz.moving.scale) /\ nz.moving.scale # Zero
    /\ \A d \in Dims : IsFinite(nz.fixed.offset[d]) /\ IsFinite(nz.moving.offset[d])

\* C24: the denormalized transform applied to a point y of moving in the
\* coordinates of the input is fixed scale * T((y - moving offset) / moving
\* scale) + fixed offset, T the transform before Registration::denormalize:
\* after at least one pass the matrix Runner::run returns as moved, the
\* denormalized transform of the denormalized moving, is the last moved of the
\* loop denormalized with the parameters of fixed.
C24_DenormalizeCommutes ==
    (/\ pc = "return"
     /\ iterations > 0
     /\ IsSome(normalization)
     /\ UsableParameters(unwrap(normalization))
     /\ ProperTransform(registration)
     /\ MatFinite(moved)) =>
        transform(registration, moving) =
            ParametersDenormalize(unwrap(normalization).fixed, moved)

\* C25: for every finite output of Transformer::probabilities the total of p1
\* over the moving points is the total of pt1 over the fixed points, the np of
\* Registration::iterate.
C25_TotalsAgree ==
    (pc = "fn_probabilities" /\ VecFinite(probs.p1) /\ VecFinite(probs.pt1)) =>
        /\ FSum(probs.p1) = FSum(probs.pt1)
        /\ IterateSums(fixed_in, moving_in, probs).np = FSum(probs.p1)

\* Probabilities of matrices with different numbers of rows, with outliers,
\* of total weight other than zero.
C25_Witness ==
    /\ pc = "fn_probabilities"
    /\ nrows(fixed_in) # nrows(moving_in)
    /\ transformer.outlier_weight = DEFAULT_OUTLIER_WEIGHT
    /\ VecFinite(probs.p1) /\ VecFinite(probs.pt1)
    /\ FSum(probs.pt1) # Zero
    /\ FSum(probs.p1) = FSum(probs.pt1)

\* The squared Euclidean distance of two rows.
SquaredDistance(x, y) ==
    FSum(Vec([d \in Dims |-> FMul(FSub(x[d], y[d]), FSub(x[d], y[d]))]))

\* The mean over all pairs of a row of fx and a row of mv of their squared
\* distance, per dimension.
MeanSquaredDistance(fx, mv) ==
    FDiv(FSum(Vec([n \in 1 .. Len(fx) |->
                  FSum(Vec([m \in 1 .. Len(mv) |-> SquaredDistance(fx[n], mv[m])]))])),
         F(Len(fx) * Len(mv) * D))

\* C26: for fixed of N rows and moving of M rows, N # M included, the default
\* sigma2 of runner::sigma2 is the sum over the N * M pairs of a fixed row and
\* a moving row of their squared distance, divided by N * M * D.
C26_MeanPairwiseDistance ==
    pc = "fn_sigma2" => sigma2 = MeanSquaredDistance(fixed_in, moving_in)

=============================================================================
